---- MODULE Spec2Model ----
(***************************************************************************)
(* Model of src/playwright_runner.py: one invocation of run_web_generator  *)
(* and the four site handlers it dispatches to.  Every await of the source *)
(* is one action; what the browser, the page and the event loop answer at  *)
(* that await (success, timeout, another fault, a cancellation) is chosen  *)
(* nondeterministically.                                                   *)
(*                                                                         *)
(* Abstractions.  A URL is a sequence of tokens and `pat in site_url` is   *)
(* token membership.  A src attribute is one of a few representative       *)
(* values whose substrings are tabulated.  A Python dict is a record with  *)
(* the set of keys that are present and the set of keys whose value is     *)
(* None.  asyncio.CancelledError derives from BaseException (Python 3.8    *)
(* and later), so `except Exception` lets it pass and a bare `except:`     *)
(* catches it.                                                             *)
(***************************************************************************)
EXTENDS Integers, Sequences, FiniteSets, TLC

\* ---- bounds ----
MaxUrlLen == 2
MaxDom == 2
MaxCancels == 1
MaxExtractDom == 4

\* ---- inputs ----
Prompts == {"a cat", "a dog"}

UrlTokens == {"lmarena.ai", "huggingface.co", "replicate.com", "example.org"}

\* `in` finds a pattern wherever it stands in the string, so one order of the tokens is
\* enough
TokenRank ==
    [t \in UrlTokens |-> IF t = "huggingface.co" THEN 1 ELSE IF t = "lmarena.ai" THEN 2
                         ELSE IF t = "replicate.com" THEN 3 ELSE 4]

\* a destination: the scheme, then up to MaxUrlLen different host or path tokens
Urls ==
    {<<"https://">> \o u :
        u \in {v \in UNION {[1..n -> UrlTokens] : n \in 1..MaxUrlLen} :
                  \A i, j \in 1..Len(v) : i < j => TokenRank[v[i]] < TokenRank[v[j]]}}

\* `pat in site_url`
Contains(url, pat) == \E i \in 1..Len(url) : url[i] = pat

\* ---- page content ----
NoSrc == "NONE"

Srcs == {NoSrc, "blob:gen", "data:image/svg+xml", "https://replicate.delivery/out.png",
         "https://cdn/generated/1.png"}

\* `sub in src`, tabulated for the substrings the handlers test
InSrc(sub, src) ==
    \/ sub = "blob:" /\ src = "blob:gen"
    \/ sub = "data:" /\ src = "data:image/svg+xml"
    \/ sub = "generated" /\ src = "https://cdn/generated/1.png"
    \/ sub = "replicate" /\ src = "https://replicate.delivery/out.png"

\* src.startswith('data:image/svg')
StartsWithSvg(src) == src = "data:image/svg+xml"

\* truth value of a src attribute (None and '' are false)
Truthy(src) == src # NoSrc

Tags == {"img", "video"}

Elements == [tag : Tags, src : Srcs]

Doms == UNION {[1..n -> Elements] : n \in 0..MaxDom}

\* ---- result dicts ----
AllKeys == {"status", "prompt", "site", "output", "error"}

Statuses == {"success", "no_output", "failed", "error"}

\* lines 20-26
Placeholder(p, u) ==
    [keys |-> AllKeys, none |-> {"output", "error"}, status |-> "failed",
     prompt |-> p, site |-> u, output |-> <<>>, error |-> ""]

\* {"status": "failed", "error": msg}
FailedDict(msg) ==
    [keys |-> {"status", "error"}, none |-> {}, status |-> "failed",
     prompt |-> "", site |-> <<>>, output |-> <<>>, error |-> msg]

\* {"status": "success" if output else "no_output", "prompt":, "site":, "output":}
DoneDict(p, siteName, out, kept) ==
    [keys |-> {"status", "prompt", "site", "output"}, none |-> {},
     status |-> IF out # <<>> THEN "success" ELSE "no_output",
     prompt |-> p, site |-> <<siteName>>, output |-> kept, error |-> ""]

\* the handler of lines 63-65 without its first assignment
ExceptExceptionStatusOnly(res, msg) ==
    [res EXCEPT !.keys = @ \cup {"status"}, !.none = @ \ {"status"}, !.status = "error"]

\* lines 63-65: result["error"] = str(e); result["status"] = "error"
ExceptException(res, msg) ==
    [res EXCEPT !.keys = @ \cup {"error", "status"}, !.none = @ \ {"error", "status"},
                !.error = msg, !.status = "error"]

\* ---- exceptions ----
NoExc == [kind |-> "none", msg |-> ""]

TimeoutError == [kind |-> "Exception", msg |-> "Timeout exceeded"]

Fault == [kind |-> "Exception", msg |-> "Target closed"]

CancelledError == [kind |-> "Cancelled", msg |-> ""]

VARIABLES prompt, site_url, pc, result, exc, browser, pw, strategy, idx,
          evidence, dom, output, log, cancels

\* counters.py: the two tables of usage.db, the lock of the ApiCounters object, the
\* threads that call it, and the number of increment calls completed per endpoint since
\* the last reset
VARIABLES api_usage, daily_stats, lock, thread, made

\* main.py: the request an endpoint is serving, where its handler stands, and the
\* response the caller receives
VARIABLES request, handler, response

runnerVars == <<prompt, site_url, pc, result, exc, browser, pw, strategy, idx,
                evidence, dom, output, log, cancels>>

counterVars == <<api_usage, daily_stats, lock, thread, made>>

apiVars == <<request, handler, response>>

vars == <<runnerVars, counterVars, apiVars>>

\* ---- counters.py: tables ----
MaxCalls == 3

Threads == {1, 2}

Endpoints == {"image_generations", "video_generations", "prompt_enhancements"}

Idle == [pc |-> "idle", endpoint |-> "", daily_row |-> <<>>]

\* lines 12-36 on a new usage.db, line 9: both tables empty, the lock free
CountersInit ==
    /\ api_usage = <<>>
    /\ daily_stats = <<>>
    /\ lock = 0
    /\ thread = [t \in Threads |-> Idle]
    /\ made = [e \in Endpoints |-> 0]

NoRequest == [kind |-> "none"]

\* no request has arrived
ApiIdle ==
    /\ request = NoRequest
    /\ handler = [pc |-> "idle"]
    /\ response = NoRequest

\* the calls made so far: which were awaited, which succeeded, and which raised a timeout
\* or another fault that left the handler (inside a candidate loop either is only a
\* failed attempt)
\* calls counts how often the browser was launched, a navigation started and a handler
\* entered; tried lists the attempts of the candidate loop that is running or just ended
Counted == {"launch", "goto", "select"}

Note(ev, r) ==
    [attempted |-> log.attempted \cup {ev},
     done      |-> IF r = "ok" THEN log.done \cup {ev} ELSE log.done,
     timedout  |-> IF r = "timeout" THEN log.timedout \cup {ev} ELSE log.timedout,
     faulted   |-> IF r = "fault" THEN log.faulted \cup {ev} ELSE log.faulted,
     calls     |-> [c \in Counted |-> log.calls[c] + (IF c = ev THEN 1 ELSE 0)],
     tried     |-> <<>>]

\* the loop an attempt belongs to: the input loop awaits wait_for_selector and fill, the
\* button loop awaits click
LoopOf(ev) == IF ev = "click" THEN "button" ELSE "input"

\* an attempt on candidate i inside a candidate loop, r being "ok" or "fail"
Try(ev, i, r) ==
    [attempted |-> log.attempted \cup {ev},
     done      |-> IF r = "ok" THEN log.done \cup {ev} ELSE log.done,
     timedout  |-> log.timedout,
     faulted   |-> log.faulted,
     calls     |-> log.calls,
     tried     |-> Append(IF log.tried # <<>> /\ LoopOf(log.tried[1].ev) = LoopOf(ev)
                          THEN log.tried ELSE <<>>,
                          [ev |-> ev, i |-> i, r |-> r])]

Init ==
    /\ prompt \in Prompts
    /\ site_url \in Urls
    /\ pc = "aenter"
    /\ result = Placeholder(prompt, site_url)
    /\ exc = NoExc
    /\ browser = "none"
    /\ pw = "none"
    /\ strategy = "none"
    /\ idx = 0
    /\ evidence = "unknown"
    /\ dom = <<>>
    /\ output = <<>>
    /\ log = [attempted |-> {}, done |-> {}, timedout |-> {}, faulted |-> {},
              calls |-> [c \in Counted |-> 0], tried |-> <<>>]
    /\ cancels = 0
    /\ CountersInit
    /\ ApiIdle

\* what an await can raise: a fault, or a cancellation of the task
Raised(e) ==
    /\ e \in {Fault, CancelledError}
    /\ e = CancelledError => cancels < MaxCancels

Timed(e) ==
    /\ e \in {TimeoutError, Fault, CancelledError}
    /\ e = CancelledError => cancels < MaxCancels

Count(e) == IF e = CancelledError THEN cancels + 1 ELSE cancels

Outcome(e) ==
    IF e = TimeoutError THEN "timeout" ELSE IF e = Fault THEN "fault" ELSE "cancel"

\* ---- extraction ----

\* s[-n:]
LastN(s, n) == IF Len(s) <= n THEN s ELSE SubSeq(s, Len(s) - n + 1, Len(s))

IsImg(e) == e.tag = "img"

IsVideo(e) == e.tag = "video"

MediaRef(type, e) == [type |-> type, url |-> e.src]

\* line 114
LmarenaImgPass(e) ==
    Truthy(e.src) /\ (InSrc("blob:", e.src) \/ InSrc("data:", e.src) \/ InSrc("generated", e.src))

\* line 120, line 155
SrcPass(e) == Truthy(e.src)

\* line 190
ReplicatePass(e) == Truthy(e.src) /\ InSrc("replicate", e.src)

\* line 254
GenericPass(e) == Truthy(e.src) /\ ~StartsWithSvg(e.src)

\* the type each element is reported with: its lower-cased tag name
ByTag(s) == [i \in 1..Len(s) |-> MediaRef(s[i].tag, s[i])]

\* lines 106-121
LmarenaOutput(d) ==
    LET images == SelectSeq(LastN(SelectSeq(d, IsImg), 3), LmarenaImgPass)
        videos == SelectSeq(LastN(SelectSeq(d, IsVideo), 2), SrcPass)
    IN  [i \in 1..Len(images) |-> MediaRef("image", images[i])]
        \o [i \in 1..Len(videos) |-> MediaRef("video", videos[i])]

\* lines 149-156
HuggingfaceOutput(d) == ByTag(SelectSeq(LastN(d, 2), SrcPass))

\* lines 184-191
ReplicateOutput(d) == ByTag(SelectSeq(d, ReplicatePass))

\* lines 248-255
GenericOutput(d) == ByTag(SelectSeq(d, GenericPass))

\* line 261: output[-3:] if output else []
GenericKept(out) == IF out # <<>> THEN LastN(out, 3) ELSE <<>>

\* ---- run_web_generator ----

\* the chain of lines 50-58 with its else branch falling into the last elif
SelectStrategyNoDefault(url) ==
    IF Contains(url, "lmarena.ai") THEN "lmarena"
    ELSE IF Contains(url, "huggingface.co") THEN "huggingface"
    ELSE "replicate"

\* lines 50-58: the if/elif chain
SelectStrategy(url) ==
    IF Contains(url, "lmarena.ai") THEN "lmarena"
    ELSE IF Contains(url, "huggingface.co") THEN "huggingface"
    ELSE IF Contains(url, "replicate.com") THEN "replicate"
    ELSE "generic"

\* handlers that go for the submit control without filling in the prompt
FirstStepAtSubmit(s) ==
    IF s = "lmarena" THEN "lm_click"
    ELSE IF s = "huggingface" THEN "hf_click"
    ELSE IF s = "replicate" THEN "rp_click"
    ELSE "g_click"

\* the first await of each handler
FirstStep(s) ==
    IF s = "lmarena" THEN "lm_wait_input"
    ELSE IF s = "huggingface" THEN "hf_wait_gradio"
    ELSE IF s = "replicate" THEN "rp_wait_input"
    ELSE "g_wait"

\* stopping the Playwright driver ends the browsers it launched
DriverStop(b) == IF b = "open" THEN "killed" ELSE b

\* an outer try statement that starts over once when an Exception reaches it
LeaveRetry(e, res) ==
    IF e.kind = "Exception" /\ log.calls["launch"] < 2
    THEN exc' = NoExc /\ result' = res /\ pc' = "launch"
    ELSE /\ exc' = e
         /\ IF e.kind = "Cancelled"
            THEN pc' = "raised" /\ result' = res
            ELSE /\ pc' = "returned"
                 /\ result' = IF e.kind = "Exception" THEN ExceptException(res, e.msg)
                               ELSE res

\* the outer try statement without its except clause
LeaveNoExcept(e, res) ==
    /\ exc' = e
    /\ result' = res
    /\ pc' = IF e.kind = "none" THEN "returned" ELSE "raised"

\* lines 28, 63-67: how the outer try statement is left with exception e pending
Leave(e, res) ==
    /\ exc' = e
    /\ IF e.kind = "Cancelled"
       THEN pc' = "raised" /\ result' = res
       ELSE /\ pc' = "returned"
            /\ result' = IF e.kind = "Exception" THEN ExceptException(res, e.msg) ELSE res

\* the inner try without its finally clause
ToFinallySkipped(e) ==
    /\ exc' = e
    /\ pc' = "aexit"
    /\ cancels' = Count(e)

\* an exception inside the inner try (lines 36-58) runs the finally clause
ToFinally(e) ==
    /\ exc' = e
    /\ pc' = "close"
    /\ cancels' = Count(e)

\* line 29: async with async_playwright() as p  (entering)
aenter ==
    /\ pc = "aenter"
    /\ \/ /\ pw' = "started"
          /\ pc' = "launch"
          /\ log' = Note("aenter", "ok")
          /\ UNCHANGED <<result, exc, cancels>>
       \/ \E e \in {Fault, CancelledError} :
             /\ Raised(e)
             /\ Leave(e, result)
             /\ cancels' = Count(e)
             /\ log' = Note("aenter", Outcome(e))
             /\ UNCHANGED pw
    /\ UNCHANGED <<counterVars, apiVars>>
    /\ UNCHANGED <<prompt, site_url, browser, strategy, idx, evidence, dom, output>>

\* lines 31-34: browser = await p.chromium.launch(...)
launch ==
    /\ pc = "launch"
    /\ \/ /\ browser' = "open"
          /\ pc' = "new_page"
          /\ log' = Note("launch", "ok")
          /\ UNCHANGED <<exc, cancels>>
       \/ \E e \in {Fault, CancelledError} :
             /\ Raised(e)
             /\ exc' = e
             /\ pc' = "aexit"
             /\ cancels' = Count(e)
             /\ log' = Note("launch", Outcome(e))
             /\ UNCHANGED browser
    /\ UNCHANGED <<counterVars, apiVars>>
    /\ UNCHANGED <<prompt, site_url, result, pw, strategy, idx, evidence, dom, output>>

\* an await of the page set-up that does nothing but succeed or raise
Setup(here, next) ==
    /\ pc = here
    /\ \/ /\ pc' = next
          /\ log' = Note(here, "ok")
          /\ UNCHANGED <<exc, cancels>>
       \/ \E e \in {TimeoutError, Fault, CancelledError} :
             /\ Timed(e)
             /\ here \notin {"goto", "wait_for_load_state"} => e # TimeoutError
             /\ ToFinally(e)
             /\ log' = Note(here, Outcome(e))
    /\ UNCHANGED <<counterVars, apiVars>>
    /\ UNCHANGED <<prompt, site_url, result, browser, pw, strategy, idx, evidence, dom,
                   output>>

\* line 37
new_page == Setup("new_page", "set_viewport_size")

\* line 40
set_viewport_size == Setup("set_viewport_size", "set_extra_http_headers")

\* lines 41-43
set_extra_http_headers == Setup("set_extra_http_headers", "goto")

\* line 46
goto == Setup("goto", "wait_for_load_state")

\* line 47
wait_for_load_state == Setup("wait_for_load_state", "dispatch")

\* lines 50-58: pick the handler and enter it
dispatch ==
    /\ pc = "dispatch"
    /\ strategy' = SelectStrategy(site_url)
    /\ pc' = FirstStep(strategy')
    /\ idx' = 1
    /\ log' = Note("select", "ok")
    /\ UNCHANGED <<counterVars, apiVars>>
    /\ UNCHANGED <<prompt, site_url, result, exc, browser, pw, evidence, dom, output,
                   cancels>>

\* line 61: finally: await browser.close()
close ==
    /\ pc = "close"
    /\ pc' = "aexit"
    /\ \/ /\ browser' = "closed"
          /\ log' = Note("close", "ok")
          /\ UNCHANGED <<exc, cancels>>
       \/ \E e \in {Fault, CancelledError} :
             /\ Raised(e)
             /\ exc' = e
             /\ cancels' = Count(e)
             /\ log' = Note("close", Outcome(e))
             /\ UNCHANGED browser
    /\ UNCHANGED <<counterVars, apiVars>>
    /\ UNCHANGED <<prompt, site_url, result, pw, strategy, idx, evidence, dom, output>>

\* line 29: leaving the async with block stops the driver; then lines 63-67
aexit ==
    /\ pc = "aexit"
    /\ pw' = "stopped"
    /\ browser' = DriverStop(browser)
    /\ \/ /\ Leave(exc, result)
          /\ log' = Note("aexit", "ok")
          /\ UNCHANGED cancels
       \/ \E e \in {Fault, CancelledError} :
             /\ Raised(e)
             /\ Leave(e, result)
             /\ cancels' = Count(e)
             /\ log' = Note("aexit", Outcome(e))
    /\ UNCHANGED <<counterVars, apiVars>>
    /\ UNCHANGED <<prompt, site_url, strategy, idx, evidence, dom, output>>

\* ---- the handlers ----

\* line 80-85
LmarenaButtons ==
    <<"button:has-text(\"Generate\")", "button:has-text(\"Submit\")",
      "button:has-text(\"Create\")", "button[type=\"submit\"]">>

\* line 208
GenericInputs == <<"textarea", "input[type=\"text\"]", "[contenteditable=\"true\"]">>

\* lines 223-230
GenericButtons ==
    <<"button:has-text(\"Generate\")", "button:has-text(\"Submit\")",
      "button:has-text(\"Create\")", "button:has-text(\"Run\")", "button[type=\"submit\"]",
      ".btn:has-text(\"Generate\")">>

\* a handler returns res: line 51/53/55/58 binds it to result and the finally clause runs
Return(res) ==
    /\ result' = res
    /\ pc' = "close"
    /\ UNCHANGED exc

\* a handler without its except clause: the exception leaves the handler
HandlerReraise(e) ==
    /\ cancels' = Count(e)
    /\ exc' = e
    /\ pc' = "close"
    /\ UNCHANGED result

\* an exception at an await of a handler, outside its candidate loops:
\* `except Exception as e: return {"status": "failed", "error": str(e)}`
HandlerRaise(e) ==
    /\ cancels' = Count(e)
    /\ IF e.kind = "Exception"
       THEN Return(FailedDict(e.msg))
       ELSE /\ exc' = e
            /\ pc' = "close"
            /\ UNCHANGED result

\* a candidate loop without its break: a success moves on to the next candidate
BreakMissing(next, start, loop, last) ==
    IF idx < last
    THEN pc' = loop /\ idx' = idx + 1
    ELSE pc' = next /\ idx' = start

\* lines 92, 215, 237: `break` leaves the candidate loop; the next loop, if any, starts
\* at its first candidate
Break(next, start, loop, last) ==
    /\ pc' = next
    /\ idx' = start

\* a candidate loop that gives up at the first candidate that fails
ProbeFailEarly(e, loop, last, msg) ==
    /\ cancels' = Count(e)
    /\ Return(FailedDict(msg))
    /\ idx' = 0

\* a candidate loop that reports the last candidate's exception instead of its own message
ProbeFailStrE(e, loop, last, msg) ==
    /\ cancels' = Count(e)
    /\ IF idx < last
       THEN /\ idx' = idx + 1
            /\ pc' = loop
            /\ UNCHANGED <<result, exc>>
       ELSE /\ Return(FailedDict(e.msg))
            /\ idx' = 0

\* an exception inside a candidate loop: `except: continue`; after the last candidate the
\* flag is still False and the handler returns msg
ProbeFail(e, loop, last, msg) ==
    /\ cancels' = Count(e)
    /\ IF idx < last
       THEN /\ idx' = idx + 1
            /\ pc' = loop
            /\ UNCHANGED <<result, exc>>
       ELSE /\ Return(FailedDict(msg))
            /\ idx' = 0

\* an await of a handler that only succeeds or raises
Await(here, ev, next, errs) ==
    /\ pc = here
    /\ \/ /\ pc' = next
          /\ log' = Note(ev, "ok")
          /\ UNCHANGED <<result, exc, cancels>>
       \/ \E e \in errs :
             /\ Timed(e)
             /\ HandlerRaise(e)
             /\ log' = Note(ev, Outcome(e))
    /\ UNCHANGED <<counterVars, apiVars>>
    /\ UNCHANGED <<prompt, site_url, browser, pw, strategy, idx, evidence, dom, output>>

AnyError == {TimeoutError, Fault, CancelledError}

NoTimeout == {Fault, CancelledError}

\* an output-evidence wait whose timeout is swallowed and extraction goes ahead
WaitOutputBestEffort(here, next) ==
    /\ pc = here
    /\ \/ /\ pc' = next
          /\ evidence' \in {"appeared", "absent"}
          /\ log' = Note("wait_output", "ok")
          /\ UNCHANGED <<result, exc, cancels>>
       \/ \E e \in NoTimeout :
             /\ Timed(e)
             /\ HandlerRaise(e)
             /\ log' = Note("wait_output", Outcome(e))
             /\ UNCHANGED evidence
    /\ UNCHANGED <<counterVars, apiVars>>
    /\ UNCHANGED <<prompt, site_url, browser, pw, strategy, idx, dom, output>>

\* page.wait_for_selector(<output evidence>, timeout=timeout*1000)
WaitOutput(here, next) ==
    /\ pc = here
    /\ \/ /\ pc' = next
          /\ evidence' = "appeared"
          /\ log' = Note("wait_output", "ok")
          /\ UNCHANGED <<result, exc, cancels>>
       \/ \E e \in AnyError :
             /\ Timed(e)
             /\ HandlerRaise(e)
             /\ evidence' = IF e = TimeoutError THEN "absent" ELSE evidence
             /\ log' = Note("wait_output", Outcome(e))
    /\ UNCHANGED <<counterVars, apiVars>>
    /\ UNCHANGED <<prompt, site_url, browser, pw, strategy, idx, dom, output>>

\* page.query_selector_all(...): the img and video elements of the page, in DOM order
Query(here, next) ==
    /\ pc = here
    /\ \/ /\ pc' = next
          /\ dom' \in Doms
          /\ log' = Note("query", "ok")
          /\ UNCHANGED <<result, exc, cancels>>
       \/ \E e \in NoTimeout :
             /\ Timed(e)
             /\ HandlerRaise(e)
             /\ log' = Note("query", Outcome(e))
             /\ UNCHANGED dom
    /\ UNCHANGED <<counterVars, apiVars>>
    /\ UNCHANGED <<prompt, site_url, browser, pw, strategy, idx, evidence, output>>

\* the get_attribute/evaluate loop over the elements, and the return that follows it;
\* the loop awaits (and so can raise) only when there is an element to visit
Extract(here, out, siteName, kept) ==
    /\ pc = here
    /\ \/ /\ output' = out
          /\ Return(DoneDict(prompt, siteName, out, kept))
          /\ log' = Note("extract", "ok")
          /\ UNCHANGED cancels
       \/ \E e \in NoTimeout :
             /\ dom # <<>>
             /\ Timed(e)
             /\ HandlerRaise(e)
             /\ log' = Note("extract", Outcome(e))
             /\ UNCHANGED output
    /\ UNCHANGED <<counterVars, apiVars>>
    /\ UNCHANGED <<prompt, site_url, browser, pw, strategy, idx, evidence, dom>>

\* ---- handle_lmarena ----

\* line 73
lm_wait_input == Await("lm_wait_input", "wait_input", "lm_fill", AnyError)

\* line 77
lm_fill == Await("lm_fill", "fill", "lm_click", AnyError)

\* lines 87-97
lm_click ==
    /\ pc = "lm_click"
    /\ \/ /\ Break("lm_settle", 0, "lm_click", Len(LmarenaButtons))
          /\ log' = Try("click", idx, "ok")
          /\ UNCHANGED <<result, exc, cancels>>
       \/ \E e \in AnyError :
             /\ Timed(e)
             /\ ProbeFail(e, "lm_click", Len(LmarenaButtons), "Could not find generate button")
             /\ log' = Try("click", idx, "fail")
    /\ UNCHANGED <<counterVars, apiVars>>
    /\ UNCHANGED <<prompt, site_url, browser, pw, strategy, evidence, dom, output>>

\* line 100
lm_settle == Await("lm_settle", "settle", "lm_wait_output", NoTimeout)

\* line 103
lm_wait_output == WaitOutput("lm_wait_output", "lm_query")

\* lines 106-107
lm_query == Query("lm_query", "lm_extract")

\* lines 109-128
lm_extract == Extract("lm_extract", LmarenaOutput(dom), "lmarena.ai", LmarenaOutput(dom))

\* ---- handle_huggingface ----

\* line 137
hf_wait_gradio == Await("hf_wait_gradio", "wait_gradio", "hf_fill", AnyError)

\* line 140
hf_fill == Await("hf_fill", "fill", "hf_click", AnyError)

\* line 143
hf_click == Await("hf_click", "click", "hf_wait_output", AnyError)

\* line 146
hf_wait_output == WaitOutput("hf_wait_output", "hf_query")

\* line 149
hf_query == Query("hf_query", "hf_extract")

\* lines 150-163
hf_extract ==
    Extract("hf_extract", HuggingfaceOutput(dom), "huggingface.co", HuggingfaceOutput(dom))

\* ---- handle_replicate ----

\* line 172
rp_wait_input == Await("rp_wait_input", "wait_input", "rp_fill", AnyError)

\* line 175
rp_fill == Await("rp_fill", "fill", "rp_click", AnyError)

\* line 178
rp_click == Await("rp_click", "click", "rp_wait_output", AnyError)

\* line 181
rp_wait_output == WaitOutput("rp_wait_output", "rp_query")

\* line 184
rp_query == Query("rp_query", "rp_extract")

\* lines 185-198
rp_extract == Extract("rp_extract", ReplicateOutput(dom), "replicate.com", ReplicateOutput(dom))

\* ---- handle_generic_site ----

\* line 212
g_wait ==
    /\ pc = "g_wait"
    /\ \/ /\ pc' = "g_fill"
          /\ log' = Try("wait_input", idx, "ok")
          /\ UNCHANGED <<result, exc, cancels, idx>>
       \/ \E e \in AnyError :
             /\ Timed(e)
             /\ ProbeFail(e, "g_wait", Len(GenericInputs), "No input field found")
             /\ log' = Try("wait_input", idx, "fail")
    /\ UNCHANGED <<counterVars, apiVars>>
    /\ UNCHANGED <<prompt, site_url, browser, pw, strategy, evidence, dom, output>>

\* lines 213-220
g_fill ==
    /\ pc = "g_fill"
    /\ \/ /\ Break("g_click", 1, "g_wait", Len(GenericInputs))
          /\ log' = Try("fill", idx, "ok")
          /\ UNCHANGED <<result, exc, cancels>>
       \/ \E e \in AnyError :
             /\ Timed(e)
             /\ ProbeFail(e, "g_wait", Len(GenericInputs), "No input field found")
             /\ log' = Try("fill", idx, "fail")
    /\ UNCHANGED <<counterVars, apiVars>>
    /\ UNCHANGED <<prompt, site_url, browser, pw, strategy, evidence, dom, output>>

\* lines 232-242
g_click ==
    /\ pc = "g_click"
    /\ \/ /\ Break("g_settle", 0, "g_click", Len(GenericButtons))
          /\ log' = Try("click", idx, "ok")
          /\ UNCHANGED <<result, exc, cancels>>
       \/ \E e \in AnyError :
             /\ Timed(e)
             /\ ProbeFail(e, "g_click", Len(GenericButtons), "No submit button found")
             /\ log' = Try("click", idx, "fail")
    /\ UNCHANGED <<counterVars, apiVars>>
    /\ UNCHANGED <<prompt, site_url, browser, pw, strategy, evidence, dom, output>>

\* line 245
g_settle == Await("g_settle", "settle", "g_query", NoTimeout)

\* line 248: there is no wait for output evidence; the page holds img/video elements or not
g_query ==
    /\ pc = "g_query"
    /\ \/ /\ pc' = "g_extract"
          /\ dom' \in Doms
          /\ evidence' \in {"appeared", "absent"}
          /\ evidence' = "absent" => dom' = <<>>
          /\ log' = Note("query", "ok")
          /\ UNCHANGED <<result, exc, cancels>>
       \/ \E e \in NoTimeout :
             /\ Timed(e)
             /\ HandlerRaise(e)
             /\ log' = Note("query", Outcome(e))
             /\ UNCHANGED <<dom, evidence>>
    /\ UNCHANGED <<counterVars, apiVars>>
    /\ UNCHANGED <<prompt, site_url, browser, pw, strategy, idx, output>>

\* lines 249-262
g_extract ==
    Extract("g_extract", GenericOutput(dom), "generic", GenericKept(GenericOutput(dom)))

Next ==
    \/ aenter \/ launch \/ new_page \/ set_viewport_size \/ set_extra_http_headers
    \/ goto \/ wait_for_load_state \/ dispatch \/ close \/ aexit
    \/ lm_wait_input \/ lm_fill \/ lm_click \/ lm_settle \/ lm_wait_output \/ lm_query
    \/ lm_extract
    \/ hf_wait_gradio \/ hf_fill \/ hf_click \/ hf_wait_output \/ hf_query \/ hf_extract
    \/ rp_wait_input \/ rp_fill \/ rp_click \/ rp_wait_output \/ rp_query \/ rp_extract
    \/ g_wait \/ g_fill \/ g_click \/ g_settle \/ g_query \/ g_extract

Spec == Init /\ [][Next]_vars

\* ---- extraction alone ----

\* the extraction of each handler applied to pages of up to MaxExtractDom elements: the
\* state is the one in which query_selector_all has just returned
Handlers == {"lmarena", "huggingface", "replicate", "generic"}

SiteOf == [lmarena |-> "lmarena.ai", huggingface |-> "huggingface.co",
           replicate |-> "replicate.com", generic |-> "example.org"]

ExtractStep == [lmarena |-> "lm_extract", huggingface |-> "hf_extract",
                replicate |-> "rp_extract", generic |-> "g_extract"]

ExtractDoms == UNION {[1..n -> Elements] : n \in 0..MaxExtractDom}

\* the calls every handler has made when it reaches its query
BeforeExtract(s) ==
    {"aenter", "launch", "new_page", "set_viewport_size", "set_extra_http_headers", "goto",
     "wait_for_load_state", "select", "fill", "click", "query"}
    \cup (IF s = "generic" THEN {"wait_input", "settle"}
          ELSE IF s = "lmarena" THEN {"wait_input", "settle", "wait_output"}
          ELSE IF s = "huggingface" THEN {"wait_gradio", "wait_output"}
          ELSE {"wait_input", "wait_output"})

ExtractInit ==
    /\ prompt = "a cat"
    /\ strategy \in Handlers
    /\ site_url = <<"https://", SiteOf[strategy]>>
    /\ pc = ExtractStep[strategy]
    /\ result = Placeholder(prompt, site_url)
    /\ exc = NoExc
    /\ browser = "open"
    /\ pw = "started"
    /\ idx = IF strategy \in {"lmarena", "generic"} THEN 0 ELSE 1
    /\ evidence = "appeared"
    /\ dom \in ExtractDoms
    /\ output = <<>>
    /\ log = [attempted |-> BeforeExtract(strategy), done |-> BeforeExtract(strategy),
              timedout |-> {}, faulted |-> {},
              calls |-> [c \in Counted |-> 1], tried |-> <<>>]
    /\ cancels = 0
    /\ CountersInit
    /\ ApiIdle

ExtractNext == lm_extract \/ hf_extract \/ rp_extract \/ g_extract

ExtractSpec == ExtractInit /\ [][ExtractNext]_vars

\* ---- properties ----

Terminal == {"returned", "raised"}

\* the dict has a non-empty list under "output"
NonEmptyOutput(res) ==
    "output" \in res.keys /\ "output" \notin res.none /\ res.output # <<>>

\* the dict has a value other than None under "error"
ErrorSet(res) == "error" \in res.keys /\ "error" \notin res.none

KnownPatterns == {"lmarena.ai", "huggingface.co", "replicate.com"}

NoPattern(url) == \A pat \in KnownPatterns : ~Contains(url, pat)

SiteSpecificSteps ==
    {"lm_wait_input", "lm_fill", "lm_click", "lm_settle", "lm_wait_output", "lm_query",
     "lm_extract", "hf_wait_gradio", "hf_fill", "hf_click", "hf_wait_output", "hf_query",
     "hf_extract", "rp_wait_input", "rp_fill", "rp_click", "rp_wait_output", "rp_query",
     "rp_extract"}

\* the handler has ended and none of its input-field candidates resolved
InputUnresolved ==
    \/ strategy \in {"lmarena", "replicate"} /\ "wait_input" \in log.timedout
    \/ strategy = "huggingface" /\ "fill" \in log.timedout
    \/ /\ strategy = "generic"
       /\ "wait_input" \in log.attempted
       /\ "wait_input" \notin log.done
       /\ pc \in {"close", "aexit"} \cup Terminal

\* the prompt was filled in, a submit control was clicked, and no img, video or result
\* container showed up
NoEvidenceAfterSubmit ==
    "fill" \in log.done /\ "click" \in log.done /\ evidence = "absent"

\* C1: whenever the browser was launched, an ended invocation (returned or raised) has
\* awaited browser.close() and leaves no browser open.
C1_BrowserClosed ==
    (pc \in Terminal /\ "launch" \in log.done)
        => (browser # "open" /\ "close" \in log.attempted)

\* C1 witness: navigation or page set-up raised after the launch, and the call returned
\* with the browser closed.
C1_Witness ==
    /\ pc = "returned"
    /\ "launch" \in log.done
    /\ strategy = "none"
    /\ exc.kind = "Exception"
    /\ browser = "closed"

\* C2 (as claimed): no fault, a cancellation included, propagates out of the call.
C2_NeverRaises == pc # "raised"

\* C2 (amended): the call always ends; when it returns, the outcome has one of the four
\* statuses; the only thing that propagates is a cancellation, never an Exception.
C2_OutcomeOrCancellation ==
    /\ pc = "returned" => ("status" \in result.keys /\ result.status \in Statuses)
    /\ pc = "raised" => exc = CancelledError
    /\ pc \notin Terminal => ENABLED Next

\* C2 witness: a cancellation delivered inside a handler leaves the call after the browser
\* was closed.
C2_Witness ==
    /\ pc = "raised"
    /\ exc = CancelledError
    /\ strategy # "none"
    /\ browser = "closed"

\* C3: a returned outcome has a non-empty output exactly when its status is success.
C3_OutputIffSuccess ==
    pc = "returned" => (NonEmptyOutput(result) <=> result.status = "success")

\* C4: a returned outcome has an error detail exactly when its status is failed or error,
\* and it is never the untouched placeholder.
C4_ErrorIffFailedOrError ==
    pc = "returned" =>
        /\ ErrorSet(result) <=> result.status \in {"failed", "error"}
        /\ result # Placeholder(prompt, site_url)

\* C4 witness: a handler that classified its own failure, returned with the detail set.
C4_Witness ==
    /\ pc = "returned"
    /\ exc = NoExc
    /\ result.status = "failed"
    /\ ErrorSet(result)

\* C5: every returned outcome has status, prompt, site and output, with the request's
\* prompt and destination.
C5_AllFields ==
    pc = "returned" =>
        /\ {"status", "prompt", "site", "output"} \subseteq result.keys
        /\ result.prompt = prompt
        /\ result.site = site_url

PatternLength == [lmarena |-> 10, huggingface |-> 14, replicate |-> 13]

PatternOf == [lmarena |-> "lmarena.ai", huggingface |-> "huggingface.co",
              replicate |-> "replicate.com"]

Matching(url) == {s \in DOMAIN PatternOf : Contains(url, PatternOf[s])}

LongestMatch(url) ==
    IF Matching(url) = {} THEN "generic"
    ELSE CHOOSE s \in Matching(url) : \A t \in Matching(url) : PatternLength[s] >= PatternLength[t]

\* C6: the selected strategy is that of the longest known pattern the destination contains.
C6_LongestMatchWins == strategy # "none" => strategy = LongestMatch(site_url)

\* C7: for a destination with none of the known patterns, the handler entered after the
\* navigation is the generic one, and no step of a site-specific handler runs.
C7_GenericFallback ==
    NoPattern(site_url) =>
        /\ "select" \in log.done => strategy = "generic"
        /\ strategy \in {"none", "generic"}
        /\ pc \notin SiteSpecificSteps

\* C7 witness: the generic handler is running for a destination with no known pattern.
C7_Witness ==
    /\ NoPattern(site_url)
    /\ "wait_for_load_state" \in log.done
    /\ strategy = "generic"
    /\ pc = "g_fill"

\* C8: when the network-idle wait times out, the strategy is still selected and run.
C8_IdleTimeoutNotFatal ==
    (pc = "returned" /\ "wait_for_load_state" \in log.timedout) => "select" \in log.done

VariantPass(s, e) ==
    IF s = "lmarena" THEN (IF IsImg(e) THEN LmarenaImgPass(e) ELSE SrcPass(e))
    ELSE IF s = "huggingface" THEN SrcPass(e)
    ELSE IF s = "replicate" THEN ReplicatePass(e)
    ELSE GenericPass(e)

ImageKinds == {"image", "img"}

\* the locators of a sequence of elements or of output items
SrcsOf(els) == [i \in 1..Len(els) |-> els[i].src]

LocatorsOf(items) == [i \in 1..Len(items) |-> items[i].url]

IsImageItem(item) == item.type \in ImageKinds

IsVideoItem(item) == item.type = "video"

PassingImages(s, d) == SelectSeq(d, LAMBDA e : IsImg(e) /\ VariantPass(s, e))

PassingVideos(s, d) == SelectSeq(d, LAMBDA e : IsVideo(e) /\ VariantPass(s, e))

\* C11: the output of a completed extraction holds the last three images that pass the
\* handler's filter and the last two videos that pass it, each kind in DOM order (item
\* kinds are compared up to the img/image spelling), and the status is success exactly
\* when there is such an element.
C11_FilterThenTruncate ==
    (pc = "close" /\ "extract" \in log.done) =>
        /\ LocatorsOf(SelectSeq(result.output, IsImageItem))
               = SrcsOf(LastN(PassingImages(strategy, dom), 3))
        /\ LocatorsOf(SelectSeq(result.output, IsVideoItem))
               = SrcsOf(LastN(PassingVideos(strategy, dom), 2))
        /\ result.status = "success"
               <=> PassingImages(strategy, dom) \o PassingVideos(strategy, dom) # <<>>

\* C12: when the handler completed every step and no element passes its filter, the
\* returned outcome is no_output with an empty list as output and no error detail.
C12_NoOutputWhenNothingPasses ==
    (/\ pc = "returned"
     /\ "extract" \in log.done
     /\ \A k \in 1..Len(dom) : ~VariantPass(strategy, dom[k])) =>
        /\ result.status = "no_output"
        /\ "output" \in result.keys \ result.none
        /\ result.output = <<>>
        /\ ~ErrorSet(result)

\* C14: the output of a returned outcome holds no locator twice and at most five items.
C14_DistinctAndCapped ==
    (pc = "returned" /\ "extract" \in log.done) =>
        /\ \A i, j \in 1..Len(result.output) :
              result.output[i].url = result.output[j].url => i = j
        /\ Len(result.output) <= 5

\* C18: every item of a returned outcome has the kind image or video.
C18_KindImageOrVideo ==
    pc = "returned" =>
        \A k \in 1..Len(result.output) : result.output[k].type \in {"image", "video"}

SetupEvents ==
    {"new_page", "set_viewport_size", "set_extra_http_headers", "goto", "wait_for_load_state"}

HandlerEvents ==
    {"wait_input", "wait_gradio", "fill", "click", "settle", "wait_output", "query", "extract"}

TeardownOk == {"close", "aexit"} \subseteq log.done

Wins(t) == t.r = "ok" /\ t.ev \in {"fill", "click"}

\* C15: in a candidate loop the attempts start at the first candidate, move to the next
\* candidate exactly when an attempt failed, and nothing is attempted after a success.
C15_OrderedFallback ==
    LET t == log.tried
    IN  /\ t # <<>> => t[1].i = 1
        /\ \A k \in 1..(Len(t) - 1) :
              /\ ~Wins(t[k])
              /\ t[k + 1].i = IF t[k].r = "fail" THEN t[k].i + 1 ELSE t[k].i

\* C15 witness: the generic handler's first two submit candidates failed and the third
\* was clicked.
C15_Witness ==
    /\ pc = "g_settle"
    /\ Len(log.tried) = 3
    /\ log.tried[2] = [ev |-> "click", i |-> 2, r |-> "fail"]
    /\ log.tried[3] = [ev |-> "click", i |-> 3, r |-> "ok"]

InputSteps == {"lm_wait_input", "lm_fill", "hf_wait_gradio", "hf_fill", "rp_wait_input",
               "rp_fill", "g_wait", "g_fill"}

ClickSteps == {"lm_click", "hf_click", "rp_click", "g_click"}

WaitOutputSteps == {"lm_wait_output", "hf_wait_output", "rp_wait_output"}

QuerySteps == {"lm_query", "hf_query", "rp_query", "g_query"}

ExtractSteps == {"lm_extract", "hf_extract", "rp_extract", "g_extract"}

\* the part of the state order that every handler keeps: each step needs the one before
\* it, no step is entered again once it is passed, and a handler that ends before its
\* extraction completed (and was not cancelled) returns failed
StepsInOrder ==
    /\ "click" \in log.attempted => "fill" \in log.done
    /\ "wait_output" \in log.attempted => "click" \in log.done
    /\ "query" \in log.attempted => "click" \in log.done
    /\ "extract" \in log.attempted => "query" \in log.done
    /\ pc \in InputSteps => "fill" \notin log.done
    /\ pc \in ClickSteps => "click" \notin log.done
    /\ pc \in WaitOutputSteps => "wait_output" \notin log.attempted
    /\ pc \in QuerySteps => "query" \notin log.attempted
    /\ pc \in ExtractSteps => "extract" \notin log.attempted
    /\ (pc = "close" /\ strategy # "none" /\ exc = NoExc /\ "extract" \notin log.done)
           => result.status = "failed"

MissingInput == "No input field found"

MissingSubmit == {"No submit button found", "Could not find generate button"}

\* the candidate list a missing-control message belongs to
ListOf(msg) ==
    IF msg = MissingInput THEN GenericInputs
    ELSE IF strategy = "lmarena" THEN LmarenaButtons ELSE GenericButtons

C19_NoRetry ==
    /\ \A c \in Counted : log.calls[c] <= 1
    /\ pc \in Terminal => ~ENABLED Next

\* C19 witness: an invocation that returned a failed outcome after one launch and one
\* handler run.
C19_Witness ==
    /\ pc = "returned"
    /\ result.status = "failed"
    /\ log.calls["launch"] = 1
    /\ log.calls["select"] = 1

\* ---- two invocations running concurrently ----

\* two coroutines of run_web_generator on one event loop interleave at their awaits; the
\* variables hold one value per invocation, and log[i] lists what the outside world (the
\* driver, the browser, the site) answered to the awaits of invocation i
Procs == {1, 2}

ConcUrls == {<<"https://", "huggingface.co">>, <<"https://", "example.org">>}

ConcDoms == {<<>>, <<[tag |-> "img", src |-> "blob:gen"]>>}

Ok == [kind |-> "ok"]

Pages == {[kind |-> "page", dom |-> d] : d \in ConcDoms}

SetupSteps ==
    {"new_page", "set_viewport_size", "set_extra_http_headers", "goto", "wait_for_load_state"}

\* the awaits that talk to the browser of the invocation
PageSteps == SetupSteps \cup {"handler", "extract"}

AfterSetup ==
    [new_page |-> "set_viewport_size", set_viewport_size |-> "set_extra_http_headers",
     set_extra_http_headers |-> "goto", goto |-> "wait_for_load_state",
     wait_for_load_state |-> "handler"]

HandlerSite == [lmarena |-> "lmarena.ai", huggingface |-> "huggingface.co",
                replicate |-> "replicate.com", generic |-> "generic"]

OutputOf(s, d) ==
    IF s = "lmarena" THEN LmarenaOutput(d)
    ELSE IF s = "huggingface" THEN HuggingfaceOutput(d)
    ELSE IF s = "replicate" THEN ReplicateOutput(d)
    ELSE GenericOutput(d)

KeptOf(s, d) == IF s = "generic" THEN GenericKept(GenericOutput(d)) ELSE OutputOf(s, d)

\* lines 63-67 applied to the locals st of one invocation
LeaveWith(st, e) ==
    [st EXCEPT !.exc = e,
               !.pc = IF e.kind = "Cancelled" THEN "raised" ELSE "returned",
               !.result = IF e.kind = "Exception" THEN ExceptException(@, e.msg) ELSE @]

\* one await of run_web_generator on the locals st of an invocation, answered by r: Ok, a
\* page, or an exception. The handler is taken in two steps, its calls up to the output
\* evidence and its query with the extraction.
LocalStep(st, r) ==
    IF st.pc = "aenter"
    THEN IF r = Ok THEN [st EXCEPT !.pw = "started", !.pc = "launch"] ELSE LeaveWith(st, r)
    ELSE IF st.pc = "launch"
    THEN IF r = Ok THEN [st EXCEPT !.browser = "open", !.pc = "new_page"]
         ELSE [st EXCEPT !.exc = r, !.pc = "aexit"]
    ELSE IF st.pc \in SetupSteps
    THEN IF r = Ok THEN [st EXCEPT !.pc = AfterSetup[st.pc]]
         ELSE [st EXCEPT !.exc = r, !.pc = "close"]
    ELSE IF st.pc = "handler"
    THEN LET s == [st EXCEPT !.strategy = SelectStrategy(st.site_url)]
         IN  IF r = Ok THEN [s EXCEPT !.pc = "extract"]
             ELSE IF r.kind = "Exception"
             THEN [s EXCEPT !.result = FailedDict(r.msg), !.pc = "close"]
             ELSE [s EXCEPT !.exc = r, !.pc = "close"]
    ELSE IF st.pc = "extract"
    THEN IF r.kind = "page"
         THEN [st EXCEPT !.dom = r.dom,
                         !.result = DoneDict(st.prompt, HandlerSite[st.strategy],
                                             OutputOf(st.strategy, r.dom),
                                             KeptOf(st.strategy, r.dom)),
                         !.pc = "close"]
         ELSE IF r.kind = "Exception"
         THEN [st EXCEPT !.result = FailedDict(r.msg), !.pc = "close"]
         ELSE [st EXCEPT !.exc = r, !.pc = "close"]
    ELSE IF st.pc = "close"
    THEN IF r = Ok THEN [st EXCEPT !.browser = "closed", !.pc = "aexit"]
         ELSE [st EXCEPT !.exc = r, !.pc = "aexit"]
    ELSE IF st.pc = "aexit"
    THEN LeaveWith([st EXCEPT !.pw = "stopped", !.browser = DriverStop(@)],
                   IF r = Ok THEN st.exc ELSE r)
    ELSE st

\* the locals of invocation i
Local(i) ==
    [pc |-> pc[i], prompt |-> prompt[i], site_url |-> site_url[i], result |-> result[i],
     exc |-> exc[i], browser |-> browser[i], pw |-> pw[i], strategy |-> strategy[i],
     dom |-> dom[i]]

\* lines 20-26: the locals when the coroutine starts
Start(i) ==
    [pc |-> "aenter", prompt |-> prompt[i], site_url |-> site_url[i],
     result |-> Placeholder(prompt[i], site_url[i]), exc |-> NoExc, browser |-> "none",
     pw |-> "none", strategy |-> "none", dom |-> <<>>]

ConcInit ==
    /\ prompt = [i \in Procs |-> IF i = 1 THEN "a cat" ELSE "a dog"]
    /\ site_url \in [Procs -> ConcUrls]
    /\ pc = [i \in Procs |-> "aenter"]
    /\ result = [i \in Procs |-> Placeholder(prompt[i], site_url[i])]
    /\ exc = [i \in Procs |-> NoExc]
    /\ browser = [i \in Procs |-> "none"]
    /\ pw = [i \in Procs |-> "none"]
    /\ strategy = [i \in Procs |-> "none"]
    /\ dom = [i \in Procs |-> <<>>]
    /\ log = [i \in Procs |-> <<>>]
    /\ idx = 0
    /\ evidence = "unknown"
    /\ output = <<>>
    /\ cancels = 0
    /\ CountersInit
    /\ ApiIdle

\* one browser process shared by the invocations: closing it closes it for all
CloseAllBrowsers(b, i) == [j \in Procs |-> IF b[j] = "open" THEN "closed" ELSE b[j]]

\* line 61: browser is a local of the invocation, bound to the process launched at
\* lines 31-34 by the invocation's own driver; close() ends that process only
CloseBrowser(b, i) == [b EXCEPT ![i] = "closed"]

\* invocation i resumes at its await `here` with one of the answers in resps; a call on a
\* page of a browser that is no longer open fails whatever the site would have answered
Resume(i, here, resps) ==
    /\ pc[i] = here
    /\ \E r \in resps :
          LET eff == IF here \in PageSteps /\ browser[i] # "open" THEN Fault ELSE r
              st  == LocalStep(Local(i), eff)
          IN  /\ pc' = [pc EXCEPT ![i] = st.pc]
              /\ result' = [result EXCEPT ![i] = st.result]
              /\ exc' = [exc EXCEPT ![i] = st.exc]
              /\ pw' = [pw EXCEPT ![i] = st.pw]
              /\ strategy' = [strategy EXCEPT ![i] = st.strategy]
              /\ dom' = [dom EXCEPT ![i] = st.dom]
              /\ browser' = IF here = "close" /\ eff = Ok
                            THEN CloseBrowser(browser, i)
                            ELSE [browser EXCEPT ![i] = st.browser]
              /\ log' = [log EXCEPT ![i] = Append(@, r)]
    /\ UNCHANGED <<counterVars, apiVars>>
    /\ UNCHANGED <<prompt, site_url, idx, evidence, output, cancels>>

\* line 29
aenterOf(i) == Resume(i, "aenter", {Ok, Fault})

\* lines 31-34
launchOf(i) == Resume(i, "launch", {Ok, Fault})

\* line 37
new_pageOf(i) == Resume(i, "new_page", {Ok, Fault})

\* line 40
set_viewport_sizeOf(i) == Resume(i, "set_viewport_size", {Ok})

\* lines 41-43
set_extra_http_headersOf(i) == Resume(i, "set_extra_http_headers", {Ok})

\* line 46
gotoOf(i) == Resume(i, "goto", {Ok, TimeoutError})

\* line 47
wait_for_load_stateOf(i) == Resume(i, "wait_for_load_state", {Ok})

\* lines 50-58: the handler's calls up to the output evidence
handlerOf(i) == Resume(i, "handler", {Ok, TimeoutError, CancelledError})

\* the handler's query_selector_all and extraction
extractOf(i) == Resume(i, "extract", Pages \cup {Fault})

\* lines 60-61
closeOf(i) == Resume(i, "close", {Ok, Fault})

\* leaving the async with block, lines 63-67
aexitOf(i) == Resume(i, "aexit", {Ok})

ConcNext ==
    \E i \in Procs :
       \/ aenterOf(i) \/ launchOf(i) \/ new_pageOf(i) \/ set_viewport_sizeOf(i)
       \/ set_extra_http_headersOf(i) \/ gotoOf(i) \/ wait_for_load_stateOf(i)
       \/ handlerOf(i) \/ extractOf(i) \/ closeOf(i) \/ aexitOf(i)

ConcSpec == ConcInit /\ [][ConcNext]_vars

RECURSIVE Replay(_, _)
\* the locals an invocation has after the answers rs when nothing else runs
Replay(st, rs) == IF rs = <<>> THEN st ELSE Replay(LocalStep(st, Head(rs)), Tail(rs))

Alone(i) == Replay(Start(i), log[i])

Today == "today"

\* lines 44 and 147: SELECT count FROM api_usage WHERE endpoint = ? read as one value, 0
\* when there is no row (COALESCE(..., 0), `row[0] if row else 0`); the statement has no
\* ORDER BY, so any matching row may come first (SQLite scans by rowid)
SelectCount(e) ==
    LET counts == {api_usage[i].count :
                      i \in {j \in 1..Len(api_usage) : api_usage[j].endpoint = e}}
    IN  IF counts = {} THEN {0} ELSE counts

\* lines 51-52 and 95-96: SELECT * FROM daily_stats WHERE date = ?, fetchone()
DailyRow == SelectSeq(daily_stats, LAMBDA r : r.date = Today)

Bump(e, col) == IF e = col THEN 1 ELSE 0

\* lines 56-68: the row written by the UPDATE, from the row that was read
DailyUpdated(row, e) ==
    [date |-> row.date,
     total_requests |-> row.total_requests + 1,
     image_generations |-> row.image_generations + Bump(e, "image_generations"),
     video_generations |-> row.video_generations + Bump(e, "video_generations"),
     prompt_enhancements |-> row.prompt_enhancements + Bump(e, "prompt_enhancements")]

\* lines 71-78: the row written by the INSERT
DailyNew(e) ==
    [date |-> Today,
     total_requests |-> 1,
     image_generations |-> Bump(e, "image_generations"),
     video_generations |-> Bump(e, "video_generations"),
     prompt_enhancements |-> Bump(e, "prompt_enhancements")]

\* date is the primary key: the UPDATE rewrites the row of that date
DailyWritten(row) ==
    [i \in 1..Len(daily_stats) |->
        IF daily_stats[i].date = row.date THEN row ELSE daily_stats[i]]

\* the increment calls that were started and have not failed
Started ==
    made["image_generations"] + made["video_generations"] + made["prompt_enhancements"]
    + Cardinality({t \in Threads : thread[t].endpoint # ""})

\* an increment that does not take the lock
AcquireUnlocked(t) == lock' = t

\* lines 40 and 135: with self.lock
Acquire(t) == lock = 0 /\ lock' = t

\* leaving the with block
Release(t) == lock' = 0

\* line 38: a thread calls increment(e)
call_increment(t) ==
    /\ thread[t].pc = "idle"
    /\ Started < MaxCalls
    /\ \E e \in Endpoints :
          thread' = [thread EXCEPT ![t] = [pc |-> "acquire", endpoint |-> e, daily_row |-> <<>>]]
    /\ UNCHANGED <<api_usage, daily_stats, lock, made>>
    /\ UNCHANGED <<runnerVars, apiVars>>

\* line 40
acquire(t) ==
    /\ thread[t].pc = "acquire"
    /\ Acquire(t)
    /\ thread' = [thread EXCEPT ![t].pc = "connect"]
    /\ UNCHANGED <<api_usage, daily_stats, made>>
    /\ UNCHANGED <<runnerVars, apiVars>>

\* line 41: sqlite3.connect opens the file, or raises and the call ends with nothing
\* written
connect(t) ==
    /\ thread[t].pc = "connect"
    /\ \/ thread' = [thread EXCEPT ![t].pc = "upsert"] /\ UNCHANGED lock
       \/ thread' = [thread EXCEPT ![t] = Idle] /\ Release(t)
    /\ UNCHANGED <<api_usage, daily_stats, made>>
    /\ UNCHANGED <<runnerVars, apiVars>>

\* lines 42-45: INSERT OR REPLACE without id; endpoint has no UNIQUE constraint, so no
\* row conflicts and a row is added
upsert(t) ==
    /\ thread[t].pc = "upsert"
    /\ \E c \in SelectCount(thread[t].endpoint) :
          api_usage' = Append(api_usage, [endpoint |-> thread[t].endpoint, count |-> c + 1])
    /\ thread' = [thread EXCEPT ![t].pc = "select"]
    /\ UNCHANGED <<daily_stats, lock, made>>
    /\ UNCHANGED <<runnerVars, apiVars>>

\* lines 48-52
select(t) ==
    /\ thread[t].pc = "select"
    /\ thread' = [thread EXCEPT ![t].pc = "write", ![t].daily_row = DailyRow]
    /\ UNCHANGED <<api_usage, daily_stats, lock, made>>
    /\ UNCHANGED <<runnerVars, apiVars>>

\* lines 54-78
write(t) ==
    /\ thread[t].pc = "write"
    /\ daily_stats' =
          IF thread[t].daily_row # <<>>
          THEN DailyWritten(DailyUpdated(thread[t].daily_row[1], thread[t].endpoint))
          ELSE Append(daily_stats, DailyNew(thread[t].endpoint))
    /\ thread' = [thread EXCEPT ![t].pc = "commit"]
    /\ UNCHANGED <<api_usage, lock, made>>
    /\ UNCHANGED <<runnerVars, apiVars>>

\* line 80 and the end of both with blocks: the call has completed
commit(t) ==
    /\ thread[t].pc = "commit"
    /\ made' = [made EXCEPT ![thread[t].endpoint] = @ + 1]
    /\ thread' = [thread EXCEPT ![t] = Idle]
    /\ Release(t)
    /\ UNCHANGED <<api_usage, daily_stats>>
    /\ UNCHANGED <<runnerVars, apiVars>>

\* line 133: a thread calls reset_stats()
call_reset(t) ==
    /\ thread[t].pc = "idle"
    /\ thread' = [thread EXCEPT ![t].pc = "r_acquire"]
    /\ UNCHANGED <<api_usage, daily_stats, lock, made>>
    /\ UNCHANGED <<runnerVars, apiVars>>

\* line 135
r_acquire(t) ==
    /\ thread[t].pc = "r_acquire"
    /\ Acquire(t)
    /\ thread' = [thread EXCEPT ![t].pc = "r_delete"]
    /\ UNCHANGED <<api_usage, daily_stats, made>>
    /\ UNCHANGED <<runnerVars, apiVars>>

\* lines 136-139
r_delete(t) ==
    /\ thread[t].pc = "r_delete"
    /\ api_usage' = <<>>
    /\ daily_stats' = <<>>
    /\ made' = [e \in Endpoints |-> 0]
    /\ thread' = [thread EXCEPT ![t] = Idle]
    /\ Release(t)
    /\ UNCHANGED <<runnerVars, apiVars>>

\* no invocation of run_web_generator is under way
RunnerIdle ==
    /\ prompt = "a cat"
    /\ site_url = <<"https://", "lmarena.ai">>
    /\ pc = "aenter"
    /\ result = Placeholder(prompt, site_url)
    /\ exc = NoExc
    /\ browser = "none"
    /\ pw = "none"
    /\ strategy = "none"
    /\ idx = 0
    /\ evidence = "unknown"
    /\ dom = <<>>
    /\ output = <<>>
    /\ log = [attempted |-> {}, done |-> {}, timedout |-> {}, faulted |-> {},
              calls |-> [c \in Counted |-> 0], tried |-> <<>>]
    /\ cancels = 0

\* the service after start-up: main.py line 24 has built the one ApiCounters object
ServiceInit == RunnerIdle /\ CountersInit /\ ApiIdle

CounterNext ==
    \E t \in Threads :
       \/ call_increment(t) \/ acquire(t) \/ connect(t) \/ upsert(t) \/ select(t)
       \/ write(t) \/ commit(t)
       \/ call_reset(t) \/ r_acquire(t) \/ r_delete(t)

CounterSpec == ServiceInit /\ [][CounterNext]_vars

\* no call of increment or reset_stats is under way
Quiescent == \A t \in Threads : thread[t].pc = "idle"

Calls == made["image_generations"] + made["video_generations"] + made["prompt_enhancements"]

RECURSIVE SumCounts(_)
\* line 125: SELECT SUM(count) FROM api_usage, `or 0`
SumCounts(rows) == IF rows = <<>> THEN 0 ELSE Head(rows).count + SumCounts(Tail(rows))

\* C21: between calls, get_endpoint_count(e) is the number of increment(e) calls since the
\* last reset, whichever matching row the query returns, and total_all_time is the number
\* of all increment calls.
C21_CountsMatchCalls ==
    Quiescent =>
        /\ \A e \in Endpoints : SelectCount(e) = {made[e]}
        /\ SumCounts(api_usage) = Calls

\* line 98-103: today's statistics as get_stats reports them
TodayStats ==
    IF DailyRow # <<>> THEN DailyRow[1]
    ELSE [date |-> Today, total_requests |-> 0, image_generations |-> 0,
          video_generations |-> 0, prompt_enhancements |-> 0]

\* C22: once every call has completed, today's total_requests is the number of completed
\* increment calls and each of the three columns is the number of calls with that name.
C22_NoLostUpdate ==
    Quiescent =>
        /\ TodayStats.total_requests = Calls
        /\ TodayStats.image_generations = made["image_generations"]
        /\ TodayStats.video_generations = made["video_generations"]
        /\ TodayStats.prompt_enhancements = made["prompt_enhancements"]
        /\ Len(daily_stats) <= 1

\* C22 witness: three increment calls issued by the threads have completed and the row of
\* today counts all three, two of them as image generations.
C22_Witness ==
    /\ Quiescent
    /\ Calls = 3
    /\ made["image_generations"] = 2
    /\ made["video_generations"] = 1
    /\ TodayStats.total_requests = 3

\* ---- main.py: POST /generate-image ----

\* line 30 names comfyui, replicate and huggingface; lines 96-98 serve comfyui and web
Generators == {"comfyui", "web", "replicate"}

Requests ==
    [kind : {"generate-image"}, text : Prompts, enhance : BOOLEAN, generator : Generators]

\* exceptions, with the text of str(e) as a sequence of pieces
HTTPException(status, detail) ==
    [type |-> "HTTPException", status |-> status, detail |-> detail]

OperationalError ==
    [type |-> "OperationalError", status |-> 0,
     detail |-> <<"unable to open database file">>]

TimeoutException == [type |-> "TimeoutException", status |-> 0, detail |-> <<"timed out">>]

ConnectError == [type |-> "ConnectError", status |-> 0, detail |-> <<"connection refused">>]

\* str(e): Starlette prints an HTTPException as "<status_code>: <detail>"
Str(e) ==
    IF e.type = "HTTPException" THEN <<ToString(e.status), ": ">> \o e.detail ELSE e.detail

\* lines 103-104: except Exception as e: raise HTTPException(status_code=500, detail=str(e))
ExceptEndpoint(e) == HTTPException(500, Str(e))

\* lines 160-163: the handlers of generate_with_comfyui
ExceptComfy(e) ==
    IF e.type = "TimeoutException" THEN HTTPException(504, <<"Generation timeout">>)
    ELSE HTTPException(500, <<"ComfyUI error: ">> \o Str(e))

\* counters.increment(e) called from the event loop: nothing else runs until it returns
Increment(e) ==
    /\ \E c \in SelectCount(e) :
          api_usage' = Append(api_usage, [endpoint |-> e, count |-> c + 1])
    /\ daily_stats' = IF DailyRow # <<>>
                      THEN DailyWritten(DailyUpdated(DailyRow[1], e))
                      ELSE Append(daily_stats, DailyNew(e))
    /\ made' = [made EXCEPT ![e] = @ + 1]
    /\ UNCHANGED <<lock, thread>>

\* the endpoint goes on at `next`
Continue(next) ==
    /\ handler' = [handler EXCEPT !.pc = next]
    /\ UNCHANGED <<request, response>>

\* exception e, first raised with status `chosen` (0 when it is not an HTTPException of
\* the endpoint's own), reaches the except clause of generate_image; FastAPI answers
\* with the status_code of the HTTPException that leaves the endpoint
Fail(e, chosen) ==
    /\ handler' = [handler EXCEPT !.pc = "done", !.chosen = chosen]
    /\ response' = [kind |-> "response", status |-> ExceptEndpoint(e).status,
                    detail |-> ExceptEndpoint(e).detail]
    /\ UNCHANGED request

\* the endpoint returns body: FastAPI answers 200
Respond(body) ==
    /\ handler' = [handler EXCEPT !.pc = "done"]
    /\ response' = [kind |-> "response", status |-> 200, detail |-> body]
    /\ UNCHANGED request

\* line 85: a request arrives
receive ==
    /\ handler.pc = "idle"
    /\ request' \in Requests
    /\ handler' = [pc |-> "increment", prompt |-> request'.text, chosen |-> 0]
    /\ UNCHANGED <<response, counterVars, runnerVars>>

\* line 88
count_image ==
    /\ handler.pc = "increment"
    /\ \/ Increment("image_generations") /\ Continue("enhance")
       \/ Fail(OperationalError, 0) /\ UNCHANGED counterVars
    /\ UNCHANGED runnerVars

\* lines 91-93 and 53: the prompt is the text, or enhance_prompt is entered and counts
\* itself; when that fails its own handler (lines 81-82) raises a 500
enhance ==
    /\ handler.pc = "enhance"
    /\ IF request.enhance
       THEN \/ Increment("prompt_enhancements") /\ Continue("ollama")
            \/ Fail(HTTPException(500, Str(OperationalError)), 0) /\ UNCHANGED counterVars
       ELSE Continue("dispatch") /\ UNCHANGED counterVars
    /\ UNCHANGED runnerVars

\* lines 61-79 and 94: the enhanced text on a 200 from Ollama, the original text otherwise
ollama ==
    /\ handler.pc = "ollama"
    /\ \E p \in {handler.prompt, "enhanced"} :
          handler' = [handler EXCEPT !.pc = "dispatch", !.prompt = p]
    /\ UNCHANGED <<request, response, counterVars, runnerVars>>

\* lines 96-101
dispatch_generator ==
    /\ handler.pc = "dispatch"
    /\ IF request.generator = "comfyui" THEN Continue("health")
       ELSE IF request.generator = "web" THEN Continue("web")
       ELSE Fail(HTTPException(400, <<"Unsupported generator">>), 400)
    /\ UNCHANGED <<counterVars, runnerVars>>

\* lines 137-139: the health check of generate_with_comfyui
health ==
    /\ handler.pc = "health"
    /\ \/ Continue("submit")
       \/ Fail(ExceptComfy(HTTPException(503, <<"ComfyUI not available">>)), 503)
       \/ \E e \in {TimeoutException, ConnectError} :
             Fail(ExceptComfy(e), ExceptComfy(e).status)
    /\ UNCHANGED <<counterVars, runnerVars>>

\* lines 142-158
submit ==
    /\ handler.pc = "submit"
    /\ \/ Respond(<<"generated", handler.prompt>>)
       \/ Fail(ExceptComfy(HTTPException(500, <<"ComfyUI generation failed">>)), 500)
       \/ \E e \in {TimeoutException, ConnectError} :
             Fail(ExceptComfy(e), ExceptComfy(e).status)
    /\ UNCHANGED <<counterVars, runnerVars>>

\* line 99: run_web_generator(prompt) returns its outcome
web ==
    /\ handler.pc = "web"
    /\ \E st \in Statuses : Respond(<<st, handler.prompt>>)
    /\ UNCHANGED <<counterVars, runnerVars>>

ApiNext ==
    \/ receive \/ count_image \/ enhance \/ ollama \/ dispatch_generator
    \/ health \/ submit \/ web

ApiSpec == ServiceInit /\ [][ApiNext]_vars

\* C23: a request answered after an HTTPException with status 400 (unsupported generator)
\* or 503 (ComfyUI health check not 200) was raised receives that status.
C23_ChosenStatusReceived ==
    (response # NoRequest /\ handler.chosen \in {400, 503}) =>
        response.status = handler.chosen

====
